---- MODULE Spec2Model ----
(***************************************************************************)
(* A model of the dependency-injection container of                        *)
(* apihub24/ts_dependency_injection (src/unnamed/part_002: the container   *)
(* and its types).  The container is two module-level maps, registrations  *)
(* and singletons, both  scope -> (dependency key -> ...), and the public  *)
(* operations Service, ServiceFor, inject, replaceWith and destroy.        *)
(* Every operation is synchronous, so each is one action; inject's         *)
(* recursion is the recursive operator inject.                             *)
(***************************************************************************)
EXTENDS Integers, Sequences, FiniteSets, TLC

\* ------------------------------------------------------------------ bounds

\* Number of public operations performed in one behaviour.
MaxSteps == 4

\* Depth of the call stack available to inject's recursion; going deeper is
\* the runtime's stack exhaustion (a RangeError thrown at the call).
MaxDepth == 4

\* --------------------------------------------------------- the client program

globalIdentifier == "#global#"

\* The scope strings the client uses ("" is a string like any other).
Scopes == {globalIdentifier, "a", ""}

\* Dependency keys: an abstract class and the decorated concrete classes.
\* Turbo is an Engine class whose constructor takes a Charger, an abstract
\* class the client registers nothing for.
AbstractKeys == {"Engine", "Charger"}
EngineClasses == {"Petrol", "Electro", "Turbo"}
Classes == EngineClasses \cup {"Car", "Hybrid", "Garage", "Loop"}
Keys == AbstractKeys \cup {"Car", "Hybrid", "Garage", "Loop"}

\* Ready-made instances the client hands to replaceWith (objects that were
\* constructed outside the container).  Container-built objects are 1, 2, ...
ReadyMade == {-1}

\* A creator is a class (constructor function with a prototype) or the arrow
\* function  () => concreteCreator  that replaceWith wraps around an instance.
ClassCreator(c) == [fn |-> "class", cls |-> c, val |-> 0]
FactoryOf(v) == [fn |-> "factory", cls |-> "none", val |-> v]

\* What the client passes as replaceWith's second argument.
InstanceArg(v) == [fn |-> "value", cls |-> "none", val |-> v]

\* Reflect.getMetadata("design:paramtypes", creator) || []  : the constructor
\* parameter types the compiler emitted for a decorated class; an arrow
\* function carries no metadata.
paramtypes(creator) ==
  IF creator.fn # "class" THEN << >>
  ELSE CASE creator.cls = "Car" -> << "Engine" >>
         [] creator.cls = "Hybrid" -> << "Engine", "Engine" >>
         [] creator.cls = "Garage" -> << "Car" >>
         [] creator.cls = "Loop" -> << "Loop" >>
         [] creator.cls = "Turbo" -> << "Charger" >>
         [] OTHER -> << >>

\* Reflect.getMetadata("di:keys", creator) || {}  : the object the Inject
\* decorator filled, parameter index -> scope string (indices from 1 here).
\*   class Hybrid { constructor(@Inject("a") e1: Engine, @Inject("") e2: Engine) }
\*   class Garage { constructor(@Inject("a") car: Car) }
Inject(creator) ==
  IF creator.fn # "class" THEN << >>
  ELSE CASE creator.cls = "Hybrid" -> (1 :> "a") @@ (2 :> "")
         [] creator.cls = "Garage" -> (1 :> "a")
         [] OTHER -> << >>

\* JavaScript truthiness of a string: only the empty string is falsy.
Truthy(s) == s # ""

\* ------------------------------------------------------------------ state

VARIABLES
  registrations,  \* scope -> (key -> [creator, isSingleton])
  singletons,     \* scope -> (key -> instance)
  heap,           \* the objects the container constructed: heap[i] = [cls, deps]
  last,           \* the operation performed last, with its outcome
  pinned,         \* history: the slots replaceWith gave a ready-made instance
  steps           \* how many operations were performed

vars == << registrations, singletons, heap, last, pinned, steps >>

\* ------------------------------------------------------------- Map helpers

EmptyMap == [x \in {} |-> 0]
MapSet(m, k, v) == [x \in (DOMAIN m) \cup {k} |-> IF x = k THEN v ELSE m[x]]
MapDelete(m, k) == [x \in (DOMAIN m) \ {k} |-> m[x]]

\* registrations.get(key)?.get(target) is defined
HasRegistration(reg, target, key) ==
  key \in DOMAIN reg /\ target \in DOMAIN reg[key]

\* singletons.get(key)?.get(target) is defined
HasInstance(sing, target, key) ==
  key \in DOMAIN sing /\ target \in DOMAIN sing[key]

\* ------------------------------------------------------------ registerCreator

\* registerCreator that keeps the entry a slot already has.
registerCreatorKeepFirst(reg, abstractTarget, concreteCreator, key, isSingleton) ==
  IF HasRegistration(reg, abstractTarget, key)
  THEN reg
  ELSE MapSet(reg, key,
              MapSet(IF key \in DOMAIN reg THEN reg[key] ELSE EmptyMap, abstractTarget,
                     [creator |-> concreteCreator, isSingleton |-> isSingleton]))

\* registerCreator that starts a new map of creators for the scope each time.
registerCreatorFreshMap(reg, abstractTarget, concreteCreator, key, isSingleton) ==
  MapSet(reg, key,
         MapSet(EmptyMap, abstractTarget,
                [creator |-> concreteCreator, isSingleton |-> isSingleton]))

registerCreator(reg, abstractTarget, concreteCreator, key, isSingleton) ==
  LET creators == IF key \in DOMAIN reg THEN reg[key] ELSE EmptyMap
  IN MapSet(reg, key,
            MapSet(creators, abstractTarget,
                   [creator |-> concreteCreator, isSingleton |-> isSingleton]))

\* --------------------------------------------------------------------- inject

\* The effective scope of parameter index:  scopedKeys[index] || key
paramKey(scopedKeys, index, key) ==
  IF index \in DOMAIN scopedKeys /\ Truthy(scopedKeys[index])
  THEN scopedKeys[index]
  ELSE key

\* let instance = instances.get(target); if (!instance) ... : whether the
\* bucket already holds an instance for target (instances are objects, so
\* a stored instance is never falsy).
hitNever(instances, target) == FALSE
hit(instances, target) == target \in DOMAIN instances

\* construct that reuses an object of the creator's class when the heap has
\* one, and construct that applies `new` to every creator.
constructShared(creator, dependencies, hp) ==
  IF creator.fn = "class" /\ \E i \in 1..Len(hp) : hp[i].cls = creator.cls
  THEN [instance |-> CHOOSE i \in 1..Len(hp) : hp[i].cls = creator.cls, heap |-> hp]
  ELSE IF creator.fn = "class"
  THEN [instance |-> Len(hp) + 1,
        heap |-> Append(hp, [cls |-> creator.cls, deps |-> dependencies])]
  ELSE [instance |-> creator.val, heap |-> hp]
constructAlwaysNew(creator, dependencies, hp) ==
  [instance |-> Len(hp) + 1,
   heap |-> Append(hp, [cls |-> creator.cls, deps |-> dependencies])]

\* new creator(...dependencies)  or  creator(...dependencies): the instance and
\* the heap after it.  A class constructs a fresh object; the wrapped arrow
\* function returns the instance it closes over.
construct(creator, dependencies, hp) ==
  IF creator.fn = "class"
  THEN [instance |-> Len(hp) + 1,
        heap |-> Append(hp, [cls |-> creator.cls, deps |-> dependencies])]
  ELSE [instance |-> creator.val, heap |-> hp]

\* The running state of one top-level call: the registry it reads, the cache
\* and heap it writes, the outcome, and a trace of what it did.
\*   status   "ok" | "notfound" | "overflow"
\*   message  the message of the Error thrown, "" when none was
\*   calls    every inject call made, in call order
\*   built    every instance stored in the cache, in store order
Run(reg, sing, hp) ==
  [reg |-> reg, sing |-> sing, heap |-> hp,
   status |-> "ok", val |-> 0, message |-> "",
   deps |-> << >>, calls |-> << >>, built |-> << >>]

\* const registration = registrations.get(key)?.get(target)
\* (found = FALSE stands for undefined)
NoRegistration == [found |-> FALSE, creator |-> FactoryOf(0), isSingleton |-> FALSE]
Found(registration) ==
  [found |-> TRUE, creator |-> registration.creator,
   isSingleton |-> registration.isSingleton]
lookupWithGlobalFallback(reg, target, key) ==
  IF HasRegistration(reg, target, key) THEN Found(reg[key][target])
  ELSE IF HasRegistration(reg, target, globalIdentifier)
  THEN Found(reg[globalIdentifier][target])
  ELSE NoRegistration
\* A lookup that lets only singleton registrations resolve.
lookupSingletonsOnly(reg, target, key) ==
  IF HasRegistration(reg, target, key) /\ reg[key][target].isSingleton
  THEN Found(reg[key][target])
  ELSE NoRegistration
lookup(reg, target, key) ==
  IF HasRegistration(reg, target, key) THEN Found(reg[key][target])
  ELSE NoRegistration

\* `Dependency not found for type: ${target.name} in key: ${key}`
NotFoundMessage(target, key) ==
  "Dependency not found for type: " \o target \o " in key: " \o key

\* An Error thrown by a nested inject leaves inject through the map callback:
\* nothing catches it, so the side effects made so far stay (r is the run that
\* threw, st the run as it was when this call began).
rethrowRolledBack(r, st) == [r EXCEPT !.sing = st.sing]
rethrow(r, st) == r

RECURSIVE inject(_, _, _, _, _)
RECURSIVE injectCycleChecked(_, _, _, _, _)
RECURSIVE mapParams(_, _, _, _, _, _)
RECURSIVE mapParamsReversed(_, _, _, _, _, _)

\* inject that keeps track of the slots being resolved up the stack and throws
\* when it is asked for one of them again.
injectCycleChecked(target, key, parent, st, depth) ==
  LET st0 == [st EXCEPT !.calls = Append(@, [target |-> target, key |-> key,
                                               parent |-> parent.cls,
                                               index |-> parent.index,
                                               ambient |-> parent.key,
                                               depth |-> depth])]
      registration == lookup(st0.reg, target, key)
      inFlight == \E i \in 1..Len(st.calls) :
                    /\ st.calls[i].target = target /\ st.calls[i].key = key
                    /\ st.calls[i].depth < depth
                    /\ \A j \in (i + 1)..Len(st.calls) :
                         st.calls[j].depth > st.calls[i].depth
  IN
  IF inFlight
  THEN [st0 EXCEPT !.status = "cycle", !.message = "Cyclic dependency"]
  ELSE IF ~registration.found
  THEN [st0 EXCEPT !.status = "notfound", !.message = NotFoundMessage(target, key)]
  ELSE
    LET st1 == IF key \in DOMAIN st0.sing
               THEN st0
               ELSE [st0 EXCEPT !.sing = MapSet(@, key, EmptyMap)]
    IN IF hit(st1.sing[key], target)
       THEN [st1 EXCEPT !.status = "ok", !.val = st1.sing[key][target]]
       ELSE
         LET r == mapParams(registration.creator, 1, key, << >>, st1, depth)
         IN IF r.status # "ok"
            THEN rethrow(r, st)
            ELSE
              LET c == construct(registration.creator, r.deps, r.heap)
              IN [r EXCEPT !.heap = c.heap,
                           !.sing = MapSet(@, key, MapSet(@[key], target, c.instance)),
                           !.built = Append(@, [target |-> target, key |-> key,
                                                 instance |-> c.instance,
                                                 creator |-> registration.creator]),
                           !.status = "ok",
                           !.val = c.instance]

\* inject(target, key) called at stack depth `depth` from `parent`
\* (parent.cls = "none" for the client's own call).
inject(target, key, parent, st, depth) ==
  LET st0 == [st EXCEPT !.calls = Append(@, [target |-> target, key |-> key,
                                               parent |-> parent.cls,
                                               index |-> parent.index,
                                               ambient |-> parent.key,
                                               depth |-> depth])]
      registration == lookup(st0.reg, target, key)
  IN
  IF depth > MaxDepth
  THEN [st0 EXCEPT !.status = "overflow",
                   !.message = "Maximum call stack size exceeded"]
  ELSE IF ~registration.found
  THEN [st0 EXCEPT !.status = "notfound", !.message = NotFoundMessage(target, key)]
  ELSE
    LET st1 == IF key \in DOMAIN st0.sing
               THEN st0
               ELSE [st0 EXCEPT !.sing = MapSet(@, key, EmptyMap)]
    IN IF hit(st1.sing[key], target)
       THEN [st1 EXCEPT !.status = "ok", !.val = st1.sing[key][target]]
       ELSE
         LET r == mapParams(registration.creator, 1, key, << >>, st1, depth)
         IN IF r.status # "ok"
            THEN rethrow(r, st)
            ELSE
              LET c == construct(registration.creator, r.deps, r.heap)
              IN [r EXCEPT !.heap = c.heap,
                           !.sing = MapSet(@, key, MapSet(@[key], target, c.instance)),
                           !.built = Append(@, [target |-> target, key |-> key,
                                                 instance |-> c.instance,
                                                 creator |-> registration.creator]),
                           !.status = "ok",
                           !.val = c.instance]

\* A map that visits the parameters from the last to the first.
mapParamsReversed(creator, index, key, acc, st, depth) ==
  IF index > Len(paramtypes(creator))
  THEN [st EXCEPT !.status = "ok", !.deps = acc]
  ELSE
    LET position == Len(paramtypes(creator)) - index + 1
        r == inject(paramtypes(creator)[position],
                    paramKey(Inject(creator), position, key),
                    [cls |-> creator.cls, index |-> position, key |-> key],
                    st, depth + 1)
    IN IF r.status # "ok"
       THEN r
       ELSE mapParamsReversed(creator, index + 1, key, << r.val >> \o acc, r, depth)

\* constructorParams.map((param, index) => inject(param, scopedKeys[index] || key))
mapParams(creator, index, key, acc, st, depth) ==
  IF index > Len(paramtypes(creator))
  THEN [st EXCEPT !.status = "ok", !.deps = acc]
  ELSE
    LET r == inject(paramtypes(creator)[index],
                    paramKey(Inject(creator), index, key),
                    [cls |-> creator.cls, index |-> index, key |-> key],
                    st, depth + 1)
    IN IF r.status # "ok"
       THEN r
       ELSE mapParams(creator, index + 1, key, Append(acc, r.val), r, depth)

ClientCall == [cls |-> "none", index |-> 0, key |-> "none"]

\* -------------------------------------------------------------------- destroy

\* destroy that deletes nothing, and destroy that drops the scope's whole bucket.
destroyNothing(sing, target, key) == sing
destroyBucket(sing, target, key) == MapDelete(sing, key)

\* destroy that leaves an emptied bucket in place.
destroyKeepBucket(sing, target, key) ==
  IF key \notin DOMAIN sing
  THEN sing
  ELSE MapSet(sing, key, MapDelete(sing[key], target))

destroy(sing, target, key) ==
  IF key \notin DOMAIN sing
  THEN sing
  ELSE LET instances == MapDelete(sing[key], target)
       IN IF Cardinality(DOMAIN instances) < 1
          THEN MapDelete(sing, key)
          ELSE MapSet(sing, key, instances)

\* ----------------------------------------------------------------- replaceWith

\* The creator replaceWith registers for its second argument.
replaceCreator(concreteCreator) ==
  IF concreteCreator.fn = "value"
  THEN FactoryOf(concreteCreator.val)
  ELSE concreteCreator

\* replaceWith from which the destroy call is left out, and replaceWith from
\* which the final inject is left out.
replaceWithNoDestroy(reg, sing, hp, abstractTarget, concreteCreator, key) ==
  LET reg1 == registerCreator(reg, abstractTarget,
                              replaceCreator(concreteCreator), key, TRUE)
      st == Run(reg1, sing, hp)
  IN IF key \in DOMAIN sing
     THEN LET r == inject(abstractTarget, key, ClientCall, st, 1)
          IN IF r.status = "ok"
             THEN [r EXCEPT !.sing = MapSet(@, key, MapSet(@[key], abstractTarget, r.val))]
             ELSE r
     ELSE st
replaceWithNoInject(reg, sing, hp, abstractTarget, concreteCreator, key) ==
  Run(registerCreator(reg, abstractTarget, replaceCreator(concreteCreator), key, TRUE),
      destroy(sing, abstractTarget, key), hp)

\* replaceWith that registers with the flag Service and ServiceFor compute.
replaceWithScopedFlag(reg, sing, hp, abstractTarget, concreteCreator, key) ==
  LET sing1 == destroy(sing, abstractTarget, key)
      reg1 == registerCreator(reg, abstractTarget,
                              replaceCreator(concreteCreator), key,
                              key = globalIdentifier)
      st == Run(reg1, sing1, hp)
  IN IF key \in DOMAIN sing1
     THEN LET r == inject(abstractTarget, key, ClientCall, st, 1)
          IN IF r.status = "ok"
             THEN [r EXCEPT !.sing = MapSet(@, key, MapSet(@[key], abstractTarget, r.val))]
             ELSE r
     ELSE st

\* replaceWith that puts the registry and the cache back when its inject throws.
replaceWithAtomic(reg, sing, hp, abstractTarget, concreteCreator, key) ==
  LET sing1 == destroy(sing, abstractTarget, key)
      reg1 == registerCreator(reg, abstractTarget,
                              replaceCreator(concreteCreator), key, TRUE)
      st == Run(reg1, sing1, hp)
  IN IF key \in DOMAIN sing1
     THEN LET r == inject(abstractTarget, key, ClientCall, st, 1)
          IN IF r.status = "ok"
             THEN [r EXCEPT !.sing = MapSet(@, key, MapSet(@[key], abstractTarget, r.val))]
             ELSE [r EXCEPT !.reg = reg, !.sing = sing]
     ELSE st

\* The whole of replaceWith, as a Run: destroy, registerCreator, and then, when
\* the scope still has a bucket of instances, inject and store.
replaceWith(reg, sing, hp, abstractTarget, concreteCreator, key) ==
  LET sing1 == destroy(sing, abstractTarget, key)
      reg1 == registerCreator(reg, abstractTarget,
                              replaceCreator(concreteCreator), key, TRUE)
      st == Run(reg1, sing1, hp)
  IN IF key \in DOMAIN sing1
     THEN LET r == inject(abstractTarget, key, ClientCall, st, 1)
          IN IF r.status = "ok"
             THEN [r EXCEPT !.sing = MapSet(@, key, MapSet(@[key], abstractTarget, r.val))]
             ELSE r
     ELSE st

\* ------------------------------------------------------------------- history

\* The instance cached for (target, key) in a cache, 0 when there is none.
CachedIn(sing, target, key) ==
  IF HasInstance(sing, target, key) THEN sing[key][target] ELSE 0

\* last.after names the operation performed just before, when it addressed
\* the same (target, key), and is "other" when it did not; last.before is then
\* the instance that was cached for (target, key) when that operation began.
NoOp == [op |-> "none", target |-> "none", key |-> "none", arg |-> FactoryOf(0),
         after |-> "other", before |-> 0,
         status |-> "ok", val |-> 0, message |-> "",
         calls |-> << >>, built |-> << >>,
         preRegistrations |-> EmptyMap, preSingletons |-> EmptyMap, preHeap |-> 0]

Record(op, target, key, arg, r) ==
  [op |-> op, target |-> target, key |-> key, arg |-> arg,
   after |-> IF last.target = target /\ last.key = key THEN last.op ELSE "other",
   before |-> IF last.target = target /\ last.key = key
              THEN CachedIn(last.preSingletons, target, key) ELSE 0,
   status |-> r.status, val |-> r.val, message |-> r.message,
   calls |-> r.calls, built |-> r.built,
   preRegistrations |-> registrations, preSingletons |-> singletons,
   preHeap |-> Len(heap)]

\* pinned[<<target, key>>] exists from a replaceWith(target, v, key) with a
\* ready-made instance v until the next replaceWith of that slot, and tells
\* whether the slot was destroyed and whether it was registered anew since.
Pin(p, target, key, concreteCreator) ==
  IF concreteCreator.fn = "value"
  THEN MapSet(p, << target, key >>,
              [val |-> concreteCreator.val, destroyed |-> FALSE, registered |-> FALSE])
  ELSE MapDelete(p, << target, key >>)
PinRegistered(p, target, key) ==
  IF << target, key >> \in DOMAIN p
  THEN [p EXCEPT ![<< target, key >>].registered = TRUE]
  ELSE p
PinDestroyed(p, target, key) ==
  IF << target, key >> \in DOMAIN p
  THEN [p EXCEPT ![<< target, key >>].destroyed = TRUE]
  ELSE p

\* -------------------------------------------------------------------- actions

Init ==
  /\ registrations = EmptyMap
  /\ singletons = EmptyMap
  /\ heap = << >>
  /\ last = NoOp
  /\ pinned = EmptyMap
  /\ steps = 0

\* What the client's decorators register.
ServiceCalls == {<< "Car", globalIdentifier >>, << "Car", "a" >>,
                 << "Hybrid", globalIdentifier >>, << "Hybrid", "a" >>,
                 << "Garage", globalIdentifier >>, << "Loop", globalIdentifier >>}
ServiceForCalls == {<< "Engine", globalIdentifier, "Petrol" >>,
                    << "Engine", "a", "Petrol" >>,
                    << "Engine", "a", "Electro" >>,
                    << "Engine", "a", "Turbo" >>,
                    << "Engine", "", "Petrol" >>}

\* The calls the client makes.
InjectCalls == ({"Engine", "Car"} \X Scopes)
                 \cup ({"Hybrid"} \X {globalIdentifier, "a"})
                 \cup ({"Garage", "Loop"} \X {globalIdentifier})
DestroyCalls == ({"Engine"} \X Scopes)
                  \cup ({"Car"} \X {globalIdentifier, "a"})
                  \cup {<< "Hybrid", globalIdentifier >>}
ReplaceArgs == {ClassCreator("Electro"), ClassCreator("Turbo")}
                 \cup {InstanceArg(v) : v \in ReadyMade}

\* @Service(key) class concreteCreator
Service(concreteCreator, key) ==
  /\ steps < MaxSteps
  /\ registrations' = registerCreator(registrations, concreteCreator,
                                      ClassCreator(concreteCreator), key,
                                      key = globalIdentifier)
  /\ last' = Record("register", concreteCreator, key, ClassCreator(concreteCreator),
                    Run(registrations, singletons, heap))
  /\ pinned' = PinRegistered(pinned, concreteCreator, key)
  /\ steps' = steps + 1
  /\ UNCHANGED << singletons, heap >>

\* @ServiceFor(abstractTarget, key) class concreteCreator
ServiceFor(abstractTarget, key, concreteCreator) ==
  /\ steps < MaxSteps
  /\ registrations' = registerCreator(registrations, abstractTarget,
                                      ClassCreator(concreteCreator), key,
                                      key = globalIdentifier)
  /\ last' = Record("register", abstractTarget, key, ClassCreator(concreteCreator),
                    Run(registrations, singletons, heap))
  /\ pinned' = PinRegistered(pinned, abstractTarget, key)
  /\ steps' = steps + 1
  /\ UNCHANGED << singletons, heap >>

\* inject(target, key) called by the client; a thrown error leaves the
\* side effects made so far in place.
InjectCall(target, key) ==
  /\ steps < MaxSteps
  /\ LET r == inject(target, key, ClientCall, Run(registrations, singletons, heap), 1)
     IN /\ singletons' = r.sing
        /\ heap' = r.heap
        /\ last' = Record("inject", target, key, FactoryOf(0), r)
  /\ steps' = steps + 1
  /\ UNCHANGED << registrations, pinned >>

\* replaceWith(abstractTarget, concreteCreator, key)
ReplaceWith(abstractTarget, concreteCreator, key) ==
  /\ steps < MaxSteps
  /\ LET r == replaceWith(registrations, singletons, heap,
                          abstractTarget, concreteCreator, key)
     IN /\ registrations' = r.reg
        /\ singletons' = r.sing
        /\ heap' = r.heap
        /\ last' = Record("replaceWith", abstractTarget, key, concreteCreator, r)
  /\ pinned' = Pin(pinned, abstractTarget, key, concreteCreator)
  /\ steps' = steps + 1

\* destroy(target, key)
Destroy(target, key) ==
  /\ steps < MaxSteps
  /\ singletons' = destroy(singletons, target, key)
  /\ last' = Record("destroy", target, key, FactoryOf(0),
                    Run(registrations, singletons, heap))
  /\ pinned' = PinDestroyed(pinned, target, key)
  /\ steps' = steps + 1
  /\ UNCHANGED << registrations, heap >>

Next ==
  \/ \E c \in ServiceCalls : Service(c[1], c[2])
  \/ \E c \in ServiceForCalls : ServiceFor(c[1], c[2], c[3])
  \/ \E c \in InjectCalls : InjectCall(c[1], c[2])
  \/ \E key \in Scopes, a \in ReplaceArgs : ReplaceWith("Engine", a, key)
  \/ \E c \in DestroyCalls : Destroy(c[1], c[2])

Spec == Init /\ [][Next]_vars

\* ----------------------------------------------------- the earlier container

\* src/unnamed/part_001 is an earlier version of the container.  Its
\* registerCreator, Service and ServiceFor are those above; its inject knows
\* no Inject decorator and applies `new` to every creator (every creator is a
\* class there), and its replaceWith takes a class only.

RECURSIVE injectEarlier(_, _, _, _, _)
RECURSIVE mapParamsEarlier(_, _, _, _, _, _)

injectEarlier(target, key, parent, st, depth) ==
  LET st0 == [st EXCEPT !.calls = Append(@, [target |-> target, key |-> key,
                                               parent |-> parent.cls,
                                               index |-> parent.index,
                                               ambient |-> parent.key,
                                               depth |-> depth])]
      registration == lookup(st0.reg, target, key)
  IN
  IF depth > MaxDepth
  THEN [st0 EXCEPT !.status = "overflow",
                   !.message = "Maximum call stack size exceeded"]
  ELSE IF ~registration.found
  THEN [st0 EXCEPT !.status = "notfound", !.message = NotFoundMessage(target, key)]
  ELSE
    LET st1 == IF key \in DOMAIN st0.sing
               THEN st0
               ELSE [st0 EXCEPT !.sing = MapSet(@, key, EmptyMap)]
    IN IF hit(st1.sing[key], target)
       THEN [st1 EXCEPT !.status = "ok", !.val = st1.sing[key][target]]
       ELSE
         LET r == mapParamsEarlier(registration.creator, 1, key, << >>, st1, depth)
         IN IF r.status # "ok"
            THEN r
            ELSE
              LET instance == Len(r.heap) + 1
              IN [r EXCEPT !.heap = Append(@, [cls |-> registration.creator.cls,
                                               deps |-> r.deps]),
                           !.sing = MapSet(@, key, MapSet(@[key], target, instance)),
                           !.built = Append(@, [target |-> target, key |-> key,
                                                 instance |-> instance,
                                                 creator |-> registration.creator]),
                           !.status = "ok",
                           !.val = instance]

\* constructorParams.map((param) => inject(param, key))
mapParamsEarlier(creator, index, key, acc, st, depth) ==
  IF index > Len(paramtypes(creator))
  THEN [st EXCEPT !.status = "ok", !.deps = acc]
  ELSE
    LET r == injectEarlier(paramtypes(creator)[index], key,
                           [cls |-> creator.cls, index |-> index, key |-> key],
                           st, depth + 1)
    IN IF r.status # "ok"
       THEN r
       ELSE mapParamsEarlier(creator, index + 1, key, Append(acc, r.val), r, depth)

\* The whole of the earlier replaceWith, as a Run: ServiceFor, and then, when
\* the scope has a bucket of instances, delete, inject(abstractTarget) (the
\* call passes no key) and store.
replaceWithEarlier(reg, sing, hp, abstractTarget, concreteCreator, key) ==
  LET reg1 == registerCreator(reg, abstractTarget, concreteCreator, key,
                              key = globalIdentifier)
  IN IF key \notin DOMAIN sing
     THEN Run(reg1, sing, hp)
     ELSE
       LET sing1 == MapSet(sing, key, MapDelete(sing[key], abstractTarget))
           r == injectEarlier(abstractTarget, globalIdentifier, ClientCall,
                              Run(reg1, sing1, hp), 1)
       IN IF r.status = "ok"
          THEN [r EXCEPT !.sing = MapSet(@, key, MapSet(@[key], abstractTarget, r.val))]
          ELSE r

\* inject(target, key) called by the client of the earlier container.
InjectCallEarlier(target, key) ==
  /\ steps < MaxSteps
  /\ LET r == injectEarlier(target, key, ClientCall,
                            Run(registrations, singletons, heap), 1)
     IN /\ singletons' = r.sing
        /\ heap' = r.heap
        /\ last' = Record("inject", target, key, FactoryOf(0), r)
  /\ steps' = steps + 1
  /\ UNCHANGED << registrations, pinned >>

\* replaceWith(abstractTarget, concreteCreator, key) of the earlier container.
ReplaceWithEarlier(abstractTarget, concreteCreator, key) ==
  /\ steps < MaxSteps
  /\ LET r == replaceWithEarlier(registrations, singletons, heap,
                                 abstractTarget, concreteCreator, key)
     IN /\ registrations' = r.reg
        /\ singletons' = r.sing
        /\ heap' = r.heap
        /\ last' = Record("replaceWith", abstractTarget, key, concreteCreator, r)
  /\ steps' = steps + 1
  /\ UNCHANGED pinned

NextEarlier ==
  \/ \E c \in ServiceCalls : Service(c[1], c[2])
  \/ \E c \in ServiceForCalls : ServiceFor(c[1], c[2], c[3])
  \/ \E c \in InjectCalls : InjectCallEarlier(c[1], c[2])
  \/ \E key \in Scopes : ReplaceWithEarlier("Engine", ClassCreator("Electro"), key)

SpecEarlier == Init /\ [][NextEarlier]_vars

\* ------------------------------------------------------------------- claims

\* instance was built by creator: an object of that class on the heap, or the
\* ready-made instance the factory wraps.
BuiltFrom(instance, creator, hp) ==
  IF creator.fn = "class"
  THEN instance \in 1..Len(hp) /\ hp[instance].cls = creator.cls
  ELSE instance = creator.val

C2_AsClaimed ==
  [][ (/\ last.op = "replaceWith" /\ last.status = "ok"
       /\ last'.op = "inject"
       /\ last'.target = last.target /\ last'.key = last.key)
      => (/\ last'.status = "ok"
          /\ BuiltFrom(last'.val, replaceCreator(last.arg), heap')
          /\ HasInstance(last.preSingletons, last.target, last.key)
               => last'.val # last.preSingletons[last.key][last.target]) ]_vars

\* C2 as amended: after replaceWith(K, NewProducer, S) has completed, the
\* next inject(K, S) never returns an instance built by the producer
\* registered before.  It returns an instance built from NewProducer (for a
\* constructor an object constructed after the replaceWith began, never the
\* one cached before; for a ready-made instance that instance), unless a
\* dependency of NewProducer has no registration: then replaceWith had found
\* no bucket and made no inject call, and inject throws NotFound naming the
\* dependency.
C2_ReplaceVisible ==
  [][ (/\ last.op = "replaceWith" /\ last.status = "ok"
       /\ last'.op = "inject"
       /\ last'.target = last.target /\ last'.key = last.key)
      => IF last'.status = "ok"
         THEN /\ BuiltFrom(last'.val, replaceCreator(last.arg), heap')
              /\ last.arg.fn = "class"
                   => (/\ last'.val > last.preHeap
                       /\ last'.val # CachedIn(last.preSingletons, last.target, last.key))
              /\ last.arg.fn = "value" => last'.val = last.arg.val
         ELSE /\ last'.status = "notfound"
              /\ last.calls = << >>
              /\ Len(last'.calls) > 1
              /\ last'.message # NotFoundMessage(last.target, last.key)
              /\ ~HasInstance(singletons', last.target, last.key) ]_vars

\* C2 witness: the slot held a cached Petrol object, replaceWith installed
\* Electro, and the next inject returned an Electro object, not the old one.
C2_Witness ==
  /\ last.op = "inject" /\ last.after = "replaceWith" /\ last.status = "ok"
  /\ last.before > 0 /\ heap[last.before].cls = "Petrol"
  /\ last.val # last.before
  /\ heap[last.val].cls = "Electro"

\* The creator registered for the slot the last operation addressed.
LastCreator == registrations[last.key][last.target].creator

\* C3 as claimed: once (K, S) holds a cached instance i1, destroy(K, S)
\* followed by inject(K, S) returns a newly constructed instance different
\* from i1.
C3_AsClaimed ==
  (last.op = "inject" /\ last.after = "destroy" /\ last.before # 0)
    => (/\ last.status = "ok"
        /\ last.val # last.before
        /\ last.val > last.preHeap)

\* C3 as amended: destroy(K, S) followed by inject(K, S) always re-runs the
\* producer registered by then and stores its result; a constructor yields an
\* object constructed in that call, different from i1, and the factory wrapped
\* around a ready-made instance yields that same instance again.  Only when
\* a registration made after i1 was built has brought in a dependency without
\* registration, inject throws NotFound naming that dependency.
C3_DestroyThenInjectReruns ==
  (last.op = "inject" /\ last.after = "destroy" /\ last.before # 0)
    => IF last.status # "ok"
       THEN /\ last.status = "notfound"
            /\ Len(last.calls) > 1
            /\ last.message # NotFoundMessage(last.target, last.key)
       ELSE
       (/\ last.status = "ok"
        /\ last.built # << >>
        /\ last.built[Len(last.built)] =
             [target |-> last.target, key |-> last.key,
              instance |-> last.val, creator |-> LastCreator]
        /\ LastCreator.fn = "class"
             => (/\ last.val > last.preHeap
                 /\ last.val # last.before
                 /\ heap[last.val].cls = LastCreator.cls)
        /\ LastCreator.fn = "factory"
             => last.val = LastCreator.val)

\* C3 witness: a constructor-registered slot was cached, destroyed and
\* injected again, and the second object is a later one.
C3_Witness ==
  /\ last.op = "inject" /\ last.after = "destroy" /\ last.status = "ok"
  /\ last.before > 0
  /\ last.val > last.before
  /\ LastCreator.fn = "class"

\* C4: inject(K, S) throws "Dependency not found for type: <K> in key: <S>"
\* exactly when (K, S) itself has no registration; registrations of K under
\* other scopes, the default scope included, are never used instead.
C4_NotFoundExactly ==
  last.op = "inject"
    => ((/\ last.status = "notfound"
         /\ last.message = "Dependency not found for type: " \o last.target
                              \o " in key: " \o last.key)
        <=> ~HasRegistration(last.preRegistrations, last.target, last.key))

\* C4 witness: Car is registered under the default scope and inject(Car, "")
\* still throws, naming Car and the scope "".
C4_Witness ==
  /\ last.op = "inject" /\ last.target = "Car" /\ last.key = ""
  /\ HasRegistration(registrations, "Car", globalIdentifier)
  /\ last.status = "notfound"
  /\ last.message = "Dependency not found for type: Car in key: "

\* Every instance stored by the last operation was produced by the creator
\* registered for its own (key, scope) slot.
BuiltByOwnRegistration ==
  \A i \in 1..Len(last.built) :
    LET e == last.built[i]
    IN /\ HasRegistration(registrations, e.target, e.key)
       /\ e.creator = registrations[e.key][e.target].creator
       /\ BuiltFrom(e.instance, e.creator, heap)
       /\ CachedIn(singletons, e.target, e.key) = e.instance

C6_AsClaimed ==
  /\ \A i \in 1..Len(last.calls) :
       LET c == last.calls[i]
       IN (c.parent # "none" /\ c.index \in DOMAIN Inject(ClassCreator(c.parent)))
            => c.key = Inject(ClassCreator(c.parent))[c.index]
  /\ \A o \in 1..Len(heap) :
       LET ov == Inject(ClassCreator(heap[o].cls))
           pt == paramtypes(ClassCreator(heap[o].cls))
       IN \A p \in DOMAIN ov, q \in DOMAIN ov :
            (pt[p] = pt[q] /\ ov[p] # ov[q]) => heap[o].deps[p] # heap[o].deps[q]

\* C7 as claimed: whenever replaceWith(K, P, S) returns normally it has called
\* inject(K, S) once and the cache holds an entry for (K, S) built from P.
C7_AsClaimed ==
  (last.op = "replaceWith" /\ last.status = "ok")
    => (/\ Len(last.calls) >= 1
        /\ HasInstance(singletons, last.target, last.key)
        /\ BuiltFrom(CachedIn(singletons, last.target, last.key),
                     replaceCreator(last.arg), heap))

\* Scope key keeps its bucket of instances when (target, key) is evicted:
\* some other key has a cached instance in that scope.
BucketSurvives(sing, target, key) ==
  key \in DOMAIN sing /\ (DOMAIN sing[key]) \ {target} # {}

\* C7 as amended: replaceWith(K, P, S) calls inject(K, S), exactly once, only
\* when scope S still has a bucket of instances after (K, S) was evicted, that
\* is when another key is cached in S; returning normally, the cache then
\* holds an entry for (K, S) built from P.  Otherwise replaceWith calls
\* inject not at all and leaves no bucket for S: the entry is built by the
\* next inject(K, S).
C7_ReplaceEagerOnlyWithBucket ==
  (last.op = "replaceWith" /\ last.status = "ok")
    => IF BucketSurvives(last.preSingletons, last.target, last.key)
       THEN /\ Len(last.calls) >= 1
            /\ \A i \in 1..Len(last.calls) : last.calls[i].parent = "none" <=> i = 1
            /\ last.calls[1].target = last.target /\ last.calls[1].key = last.key
            /\ HasInstance(singletons, last.target, last.key)
            /\ BuiltFrom(CachedIn(singletons, last.target, last.key),
                         replaceCreator(last.arg), heap)
            /\ CachedIn(singletons, last.target, last.key) = last.val
       ELSE /\ last.calls = << >>
            /\ last.key \notin DOMAIN singletons

\* C7 witness: Car was cached in scope "a" beside Engine, and
\* replaceWith(Engine, Electro, "a") left an Electro object cached.
C7_Witness ==
  /\ last.op = "replaceWith" /\ last.status = "ok"
  /\ BucketSurvives(last.preSingletons, last.target, last.key)
  /\ HasInstance(last.preSingletons, last.target, last.key)
  /\ last.arg = ClassCreator("Electro")
  /\ HasInstance(singletons, last.target, last.key)
  /\ heap[singletons[last.key][last.target]].cls = "Electro"

\* C8: destroy(K, S) removes at most the cache entry of (K, S): it throws
\* nothing, the registry and the heap are as before, every other slot caches
\* what it cached before, and when (K, S) had no instance no cached instance
\* changes.
C8_DestroyFrame ==
  last.op = "destroy"
    => (/\ last.status = "ok" /\ last.message = ""
        /\ registrations = last.preRegistrations
        /\ Len(heap) = last.preHeap
        /\ ~HasInstance(singletons, last.target, last.key)
        /\ \A t \in Keys, k \in Scopes :
             (t # last.target \/ k # last.key)
               => (/\ HasInstance(singletons, t, k)
                        <=> HasInstance(last.preSingletons, t, k)
                   /\ CachedIn(singletons, t, k) = CachedIn(last.preSingletons, t, k))
        /\ ~HasInstance(last.preSingletons, last.target, last.key)
             => \A t \in Keys, k \in Scopes :
                  CachedIn(singletons, t, k) = CachedIn(last.preSingletons, t, k))

\* C8 witness: destroy evicted a cached instance while another key of the
\* same scope stayed cached.
C8_Witness ==
  /\ last.op = "destroy"
  /\ HasInstance(last.preSingletons, last.target, last.key)
  /\ \E t \in Keys : t # last.target /\ HasInstance(singletons, t, last.key)

\* C9 as claimed: after replaceWith(K, v, S) with a ready-made instance v the
\* registration of (K, S) is a factory without parameters that yields v, and
\* every inject(K, S) returns v itself, resolving no dependency, until the
\* slot is replaced again or has been both destroyed and registered anew.
C9_AsClaimed ==
  /\ (last.op = "replaceWith" /\ last.arg.fn = "value")
       => (/\ LastCreator = FactoryOf(last.arg.val)
           /\ paramtypes(LastCreator) = << >>)
  /\ (/\ last.op = "inject"
      /\ << last.target, last.key >> \in DOMAIN pinned
      /\ ~(/\ pinned[<< last.target, last.key >>].destroyed
           /\ pinned[<< last.target, last.key >>].registered))
       => (/\ last.status = "ok"
           /\ last.val = pinned[<< last.target, last.key >>].val
           /\ Len(last.calls) = 1)

\* C9 as amended: after replaceWith(K, v, S) with a ready-made instance v the
\* registration of (K, S) is a factory without parameters that yields v, and
\* it stays so until the slot is registered anew or replaced (destroy alone
\* never ends it); every inject(K, S) made while that registration is in
\* place or v is still cached for (K, S) returns v itself, resolving no
\* dependency and constructing nothing.  replaceWith itself caches v only
\* when scope S keeps its bucket, so a registration made before v was first
\* cached takes effect at once, without any destroy.
C9_ReadyMadeInstance ==
  /\ (last.op = "replaceWith" /\ last.arg.fn = "value")
       => (/\ last.status = "ok"
           /\ HasRegistration(registrations, last.target, last.key)
           /\ LastCreator = FactoryOf(last.arg.val)
           /\ paramtypes(LastCreator) = << >>
           /\ CachedIn(singletons, last.target, last.key) \in {0, last.arg.val})
  /\ \A slot \in DOMAIN pinned :
       ~pinned[slot].registered
         => (/\ HasRegistration(registrations, slot[1], slot[2])
             /\ registrations[slot[2]][slot[1]].creator = FactoryOf(pinned[slot].val))
  /\ (/\ last.op = "inject"
      /\ HasRegistration(registrations, last.target, last.key)
      /\ \/ LastCreator.fn = "factory"
         \/ CachedIn(last.preSingletons, last.target, last.key) \in ReadyMade)
       => (/\ last.status = "ok"
           /\ last.val \in ReadyMade
           /\ LastCreator.fn = "factory" => last.val = LastCreator.val
           /\ Len(last.calls) = 1
           /\ Len(heap) = last.preHeap)

\* C9 witness: the instance installed by replaceWith was cached, destroyed,
\* and the next inject returned it again.
C9_Witness ==
  /\ last.op = "inject" /\ last.after = "destroy" /\ last.status = "ok"
  /\ last.before \in ReadyMade
  /\ last.val = last.before
  /\ LastCreator = FactoryOf(last.val)

\* The calls of the last operation that were still running when it ended:
\* those with only deeper calls after them (the last call is one of them).
Chain(calls) ==
  {i \in 1..Len(calls) : \A j \in (i + 1)..Len(calls) : calls[j].depth > calls[i].depth}

\* C10: when inject(K, S) fails because a transitive dependency has no
\* registration, the cache afterwards holds no entry for (K, S) nor for any
\* slot on the failing call chain, while every dependency resolved before the
\* failure, and everything cached before the call, is still cached.
C10_FailureKeepsResolved ==
  (last.op = "inject" /\ last.status = "notfound" /\ Len(last.calls) > 1)
    => (/\ ~HasInstance(singletons, last.target, last.key)
        /\ \A i \in Chain(last.calls) :
             ~HasInstance(singletons, last.calls[i].target, last.calls[i].key)
        /\ \A i \in (1..Len(last.calls)) \ Chain(last.calls) :
             HasInstance(singletons, last.calls[i].target, last.calls[i].key)
        /\ \A i \in 1..Len(last.built) :
             CachedIn(singletons, last.built[i].target, last.built[i].key)
               = last.built[i].instance
        /\ \A t \in Keys, k \in Scopes :
             HasInstance(last.preSingletons, t, k)
               => CachedIn(singletons, t, k) = CachedIn(last.preSingletons, t, k))

\* C10 witness: inject(Hybrid) built and cached its first Engine, then failed
\* on the second; the first Engine is cached and Hybrid is not.
C10_Witness ==
  /\ last.op = "inject" /\ last.target = "Hybrid" /\ last.status = "notfound"
  /\ Len(last.built) = 1
  /\ ~HasInstance(last.preSingletons, "Engine", "a")
  /\ CachedIn(singletons, "Engine", "a") = last.built[1].instance
  /\ ~HasInstance(singletons, "Hybrid", last.key)

\* C11: registering the same (key, scope) again is never an error and the
\* last registration wins: right after register(K, P2, S) on a slot that
\* held a different producer P1 the registry holds exactly P2 for (K, S) and
\* every other slot's registration as before, and a construction of (K, S)
\* made by the next operation is performed by P2; every construction at all
\* is performed by the producer the registry holds for its slot.
C11_LastRegistrationWins ==
  [][ /\ last'.op = "register"
        => (/\ last'.status = "ok" /\ last'.message = ""
            /\ HasRegistration(registrations', last'.target, last'.key)
            /\ registrations'[last'.key][last'.target].creator = last'.arg
            /\ \A t \in Keys, k \in Scopes :
                 (t # last'.target \/ k # last'.key)
                   => (/\ HasRegistration(registrations', t, k)
                            <=> HasRegistration(registrations, t, k)
                       /\ HasRegistration(registrations, t, k)
                            => registrations'[k][t] = registrations[k][t]))
      /\ (/\ last.op = "register"
          /\ last'.op = "inject"
          /\ last'.target = last.target /\ last'.key = last.key
          /\ ~HasInstance(singletons, last.target, last.key)
          /\ last'.status = "ok")
        => (/\ last'.built # << >>
            /\ last'.built[Len(last'.built)] =
                 [target |-> last.target, key |-> last.key,
                  instance |-> last'.val, creator |-> last.arg]
            /\ BuiltFrom(last'.val, last.arg, heap')
            /\ last'.val > Len(heap))
      /\ \A i \in 1..Len(last'.built) :
           LET e == last'.built[i]
           IN /\ HasRegistration(registrations', e.target, e.key)
              /\ e.creator = registrations'[e.key][e.target].creator ]_vars

\* C11 witness: Engine was registered under a non-default scope with one
\* class and has just been registered there again with the other one, the
\* slot caching nothing; the registry now holds the second class.
C11_Witness ==
  /\ last.op = "register" /\ last.status = "ok"
  /\ last.target = "Engine" /\ last.key # globalIdentifier
  /\ HasRegistration(last.preRegistrations, last.target, last.key)
  /\ last.preRegistrations[last.key][last.target].creator.fn = "class"
  /\ last.preRegistrations[last.key][last.target].creator # last.arg
  /\ ~HasInstance(singletons, last.target, last.key)
  /\ LastCreator = last.arg

\* The call that made call i of a call trace: the nearest earlier call one
\* level up the stack (0 for the client's own call).
ParentCall(calls, i) ==
  LET above == {j \in 1..(i - 1) : calls[j].depth = calls[i].depth - 1}
  IN IF above = {} THEN 0 ELSE CHOOSE j \in above : \A m \in above : m <= j

\* C12: within one inject call dependencies are resolved strictly depth-first
\* and left to right in declaration order: the trace of inject calls is the
\* pre-order walk of the declarations (each call is made by the call one level
\* up, for its next parameter, after the calls for the parameters before it
\* have returned), every dependency of a constructed object was already in the
\* cache when the object was constructed, and the object itself is stored
\* after all of them.
C12_DepthFirstLeftToRight ==
  /\ \A i \in 1..Len(last.calls) :
       LET c == last.calls[i]
           j == ParentCall(last.calls, i)
       IN IF i = 1
          THEN c.depth = 1 /\ c.parent = "none"
          ELSE /\ c.depth > 1
               /\ c.depth <= last.calls[i - 1].depth + 1
               /\ j > 0
               /\ c.ambient = last.calls[j].key
               /\ c.parent = registrations[last.calls[j].key][last.calls[j].target].creator.cls
               /\ c.index \in 1..Len(paramtypes(ClassCreator(c.parent)))
               /\ c.target = paramtypes(ClassCreator(c.parent))[c.index]
               /\ c.index = 1 + Cardinality({m \in (j + 1)..(i - 1) :
                                               last.calls[m].depth = c.depth})
  /\ \A n \in 1..Len(last.built) :
       LET b == last.built[n]
       IN b.creator.fn = "class"
            => (/\ b.instance = last.preHeap + Cardinality({m \in 1..n :
                                   last.built[m].creator.fn = "class"})
                /\ Len(heap[b.instance].deps) = Len(paramtypes(b.creator))
                /\ \A p \in 1..Len(paramtypes(b.creator)) :
                     LET t == paramtypes(b.creator)[p]
                         k == paramKey(Inject(b.creator), p, b.key)
                     IN /\ heap[b.instance].deps[p] = CachedIn(singletons, t, k)
                        /\ \/ /\ HasInstance(last.preSingletons, t, k)
                              /\ ~(last.op = "replaceWith"
                                     /\ t = last.target /\ k = last.key)
                           \/ \E m \in 1..(n - 1) :
                                /\ last.built[m].target = t /\ last.built[m].key = k
                                /\ last.built[m].instance = heap[b.instance].deps[p])

\* C12 witness: inject(Hybrid) resolved Engine for its first parameter, then
\* Engine for its second, constructing both, and constructed Hybrid last.
C12_Witness ==
  /\ last.op = "inject" /\ last.target = "Hybrid" /\ last.status = "ok"
  /\ Len(last.calls) = 3
  /\ last.calls[2].index = 1 /\ last.calls[3].index = 2
  /\ Len(last.built) = 3
  /\ last.built[3].target = "Hybrid"
  /\ heap[last.val].deps = << last.built[1].instance, last.built[2].instance >>
  /\ last.built[1].instance < last.built[2].instance
  /\ last.built[2].instance < last.val

\* C13 as claimed: every nested inject call is made in the scope the parent's
\* declaration gives it: the override of its parameter when one is declared,
\* whatever string it is, and otherwise the scope of the call that constructs
\* the parent (never the default scope for that reason alone); so an override
\* is the ambient scope of the whole subtree below its parameter.
C13_AsClaimed ==
  \A i \in 2..Len(last.calls) :
    LET c == last.calls[i]
        j == ParentCall(last.calls, i)
        overrides == Inject(ClassCreator(c.parent))
    IN /\ j > 0
       /\ c.key = IF c.index \in DOMAIN overrides
                  THEN overrides[c.index]
                  ELSE last.calls[j].key

\* C14: registration changes the registry only, never the cache or the heap,
\* and a cache entry stays until its own slot is destroyed or replaced: every
\* operation other than destroy(K, S) and replaceWith(K, ., S) leaves the
\* instance cached for (K, S) in place (re-registration of (K, S), destroy and
\* replaceWith of other slots, inject of anything), and inject(K, S) on a
\* cached slot returns that instance.
C14_CacheEntryPersists ==
  [][ /\ last'.op = "register" => (singletons' = singletons /\ heap' = heap)
      /\ \A t \in Keys, k \in Scopes :
           (/\ HasInstance(singletons, t, k)
            /\ ~(/\ last'.op \in {"destroy", "replaceWith"}
                 /\ last'.target = t /\ last'.key = k))
             => (/\ HasInstance(singletons', t, k)
                 /\ singletons'[k][t] = singletons[k][t]
                 /\ (last'.op = "inject" /\ last'.target = t /\ last'.key = k)
                      => (last'.status = "ok" /\ last'.val = singletons[k][t])) ]_vars

\* C14 witness: Engine was built from Petrol in scope "a" and cached, the slot
\* was registered anew with Electro, and inject still returned the Petrol
\* object, constructing nothing.
C14_Witness ==
  /\ last.op = "inject" /\ last.after = "register" /\ last.status = "ok"
  /\ last.target = "Engine"
  /\ LastCreator = ClassCreator("Electro")
  /\ last.val > 0 /\ heap[last.val].cls = "Petrol"
  /\ last.val = last.before
  /\ last.built = << >>

\* C15 as claimed: in every reachable state every registration stored for a
\* slot (K, S) has isSingleton = TRUE exactly when S is "#global#".
C15_AsClaimed ==
  \A k \in DOMAIN registrations : \A t \in DOMAIN registrations[k] :
    registrations[k][t].isSingleton <=> k = globalIdentifier

\* C15 as amended: Service and ServiceFor store isSingleton = TRUE exactly when
\* the scope is "#global#", replaceWith stores isSingleton = TRUE for every
\* scope, and no other operation touches a registration; so every
\* registration under "#global#" has the flag set, and a registration under
\* another scope has it set exactly when replaceWith made it.
C15_SingletonFlag ==
  [][ \A k \in DOMAIN registrations' : \A t \in DOMAIN registrations'[k] :
        /\ k = globalIdentifier => registrations'[k][t].isSingleton
        /\ IF last'.target = t /\ last'.key = k /\ last'.op = "register"
           THEN registrations'[k][t].isSingleton <=> k = globalIdentifier
           ELSE IF last'.target = t /\ last'.key = k /\ last'.op = "replaceWith"
           THEN registrations'[k][t].isSingleton
           ELSE /\ HasRegistration(registrations, t, k)
                /\ registrations'[k][t] = registrations[k][t] ]_vars

\* C15 witness: replaceWith has just registered a slot of a non-default scope
\* with isSingleton = TRUE, while a slot that ServiceFor or Service registered
\* under a non-default scope has isSingleton = FALSE.
C15_Witness ==
  /\ last.op = "replaceWith" /\ last.key # globalIdentifier
  /\ registrations[last.key][last.target].isSingleton
  /\ \E k \in DOMAIN registrations : \E t \in DOMAIN registrations[k] :
       k # globalIdentifier /\ ~registrations[k][t].isSingleton

\* One public operation, named as in last.op, applied to a container state:
\* the Run it ends in.
Apply(op, target, key, arg, reg, sing, hp) ==
  CASE op = "register" ->
         Run(registerCreator(reg, target, arg, key, key = globalIdentifier), sing, hp)
    [] op = "inject" -> inject(target, key, ClientCall, Run(reg, sing, hp), 1)
    [] op = "replaceWith" -> replaceWith(reg, sing, hp, target, arg, key)
    [] op = "destroy" -> Run(reg, destroy(sing, target, key), hp)

\* The slots of a registry, and the registry with isSingleton = TRUE exactly
\* for the slots in flagged.
Slots(reg) == {<< k, t >> \in Scopes \X Keys : HasRegistration(reg, t, k)}
WithFlags(reg, flagged) ==
  [k \in DOMAIN reg |->
     [t \in DOMAIN reg[k] |->
        [creator |-> reg[k][t].creator, isSingleton |-> << k, t >> \in flagged]]]

\* Every registry that differs from reg in isSingleton values only.
FlagVariants(reg) == {WithFlags(reg, flagged) : flagged \in SUBSET Slots(reg)}

Pruned(sing) == [k \in {x \in DOMAIN sing : DOMAIN sing[x] # {}} |-> sing[k]]
WithEmptyBuckets(sing, empties) ==
  [k \in (DOMAIN Pruned(sing)) \cup empties |->
     IF k \in DOMAIN Pruned(sing) THEN sing[k] ELSE EmptyMap]

\* Every cache that differs from sing only in which scopes without instances
\* have an (empty) bucket.
BucketVariants(sing) ==
  {WithEmptyBuckets(sing, empties) : empties \in SUBSET (Scopes \ DOMAIN Pruned(sing))}

\* C17: whether a scope without instances has an empty bucket or no bucket is
\* not observable.  Whatever operation a container performs, a second
\* container that differs from it only in the empty buckets of its cache
\* performs it with the same result, the same inject calls, the same producer
\* invocations and stores, the same registry and heap, and ends with the same
\* cached entries; so the two stay in step over every sequence of operations.
C17_PruningNotObservable ==
  [][ \A sing2 \in BucketVariants(singletons) :
        LET twin == Apply(last'.op, last'.target, last'.key, last'.arg,
                          registrations, sing2, heap)
        IN /\ twin.status = last'.status
           /\ twin.val = last'.val
           /\ twin.message = last'.message
           /\ twin.calls = last'.calls
           /\ twin.built = last'.built
           /\ twin.reg = registrations'
           /\ twin.heap = heap'
           /\ Pruned(twin.sing) = Pruned(singletons') ]_vars

\* C17 witness: a failed inject had left scope "a" with an empty bucket, and
\* replaceWith was then performed on a slot of that scope.
C17_Witness ==
  /\ last.op = "replaceWith" /\ last.status = "ok"
  /\ last.key \in DOMAIN last.preSingletons
  /\ DOMAIN last.preSingletons[last.key] = {}
  /\ last.calls = << >>
  /\ last.key \notin DOMAIN singletons

\* The slots the creator registered for slot << target, key >> declares as its
\* dependencies; none when the slot has no registration or holds an instance
\* (inject asks for the dependencies of neither).
Declared(reg, sing, slot) ==
  IF HasRegistration(reg, slot[1], slot[2]) /\ ~HasInstance(sing, slot[1], slot[2])
  THEN LET creator == reg[slot[2]][slot[1]].creator
       IN {<< paramtypes(creator)[p], paramKey(Inject(creator), p, slot[2]) >> :
             p \in 1..Len(paramtypes(creator))}
  ELSE {}

\* The slots inject can come to from the slots in from.
RECURSIVE ReachFrom(_, _, _)
ReachFrom(reg, sing, from) ==
  LET more == from \cup UNION {Declared(reg, sing, slot) : slot \in from}
  IN IF more = from THEN from ELSE ReachFrom(reg, sing, more)

\* slot is on a cycle of declarations among registered slots without instance.
OnCycle(reg, sing, slot) ==
  slot \in ReachFrom(reg, sing, Declared(reg, sing, slot))

\* C18: inject detects no cycle.  inject(K, S) on a registered slot without
\* instance whose declarations lead back to itself recurses until the call
\* stack is used up, however deep the stack is: every call is one level below
\* the call before it, no instance is returned, and no slot of the cycle gets
\* a cache entry.  When no slot inject can come to from (K, S) is on a cycle,
\* inject ends with an instance, which is then cached, or with NotFound.
C18_NoCycleDetection ==
  last.op = "inject"
    => LET reg == last.preRegistrations
           sing == last.preSingletons
           slot == << last.target, last.key >>
       IN /\ OnCycle(reg, sing, slot)
               => (/\ last.status = "overflow"
                   /\ last.val = 0
                   /\ Len(last.calls) = MaxDepth + 1
                   /\ \A i \in 1..Len(last.calls) :
                        /\ last.calls[i].depth = i
                        /\ OnCycle(reg, sing, << last.calls[i].target, last.calls[i].key >>)
                   /\ \A other \in ReachFrom(reg, sing, {slot}) :
                        OnCycle(reg, sing, other)
                          => ~HasInstance(singletons, other[1], other[2]))
          /\ (\A other \in ReachFrom(reg, sing, {slot}) : ~OnCycle(reg, sing, other))
               => (/\ last.status \in {"ok", "notfound"}
                   /\ last.status = "ok"
                        => (/\ last.val # 0
                            /\ CachedIn(singletons, last.target, last.key) = last.val))

\* C18 witness: Loop, whose constructor takes a Loop, was registered and
\* injected; the calls went down to the end of the stack and nothing is cached.
C18_Witness ==
  /\ last.op = "inject" /\ last.target = "Loop" /\ last.status = "overflow"
  /\ Len(last.calls) = MaxDepth + 1
  /\ last.calls[Len(last.calls)].target = "Loop"
  /\ ~HasInstance(singletons, "Loop", last.key)

\* C19: registrations are never deleted, only overwritten: a slot that has a
\* registration has one after every operation, so inject(K, S) on a slot
\* that was ever registered never fails with the NotFound error that names
\* K and S themselves.
C19_RegistrationsNeverDeleted ==
  [][ /\ \A t \in Keys, k \in Scopes :
           HasRegistration(registrations, t, k) => HasRegistration(registrations', t, k)
      /\ (last'.op = "inject"
          /\ HasRegistration(registrations, last'.target, last'.key))
           => ~(/\ last'.status = "notfound"
                /\ last'.message = NotFoundMessage(last'.target, last'.key)) ]_vars

\* C19 witness: inject of a slot that was registered, and injected without
\* success once before, failed with NotFound again, and the error names a
\* dependency, not the slot injected.
C19_Witness ==
  /\ last.op = "inject" /\ last.status = "notfound"
  /\ HasRegistration(registrations, last.target, last.key)
  /\ last.message # NotFoundMessage(last.target, last.key)
  /\ last.after = "inject"
  /\ HasRegistration(last.preRegistrations, last.target, last.key)

\* C20 as claimed: in the earlier container, in every state in which
\* replaceWith(K, P, S) with a non-default scope S has just completed,
\* inject(K, S) returns an instance built from P.
C20_AsClaimed ==
  (last.op = "replaceWith" /\ last.status = "ok" /\ last.key # globalIdentifier)
    => LET r == injectEarlier(last.target, last.key, ClientCall,
                              Run(registrations, singletons, heap), 1)
       IN /\ r.status = "ok"
          /\ BuiltFrom(r.val, last.arg, r.heap)

\* C21: in every reachable state every slot that holds a cached instance also
\* has a registration, so looking up the registry before the cache (as inject
\* does) gives what looking into the cache first would give: inject of a slot
\* that held an instance when the call began returns that instance and never
\* throws NotFound, and the same holds for every nested inject call.
C21_CachedImpliesRegistered ==
  /\ \A k \in DOMAIN singletons : \A t \in DOMAIN singletons[k] :
       HasRegistration(registrations, t, k)
  /\ (last.op = "inject" /\ HasInstance(last.preSingletons, last.target, last.key))
       => (/\ last.status = "ok"
           /\ last.val = last.preSingletons[last.key][last.target]
           /\ Len(last.calls) = 1
           /\ last.built = << >>)
  /\ last.op = "inject"
       => \A i \in 1..Len(last.calls) :
            HasInstance(last.preSingletons, last.calls[i].target, last.calls[i].key)
              => ~(/\ i = Len(last.calls)
                   /\ last.status = "notfound")

\* C21 witness: inject constructed an object whose dependency was already
\* cached; the nested call returned the cached instance.
C21_Witness ==
  /\ last.op = "inject" /\ last.status = "ok"
  /\ Len(last.calls) = 2 /\ Len(last.built) = 1
  /\ HasInstance(last.preSingletons, last.calls[2].target, last.calls[2].key)
  /\ heap[last.val].deps =
       << last.preSingletons[last.calls[2].key][last.calls[2].target] >>

\* The cached dependents of slot (target, key): << t, k, p >> such that the
\* object cached for (t, k) was constructed by the container and parameter p
\* of its class is resolved as (target, key).
Dependents(sing, hp, target, key) ==
  {d \in Keys \X Scopes \X (1..2) :
     /\ HasInstance(sing, d[1], d[2])
     /\ sing[d[2]][d[1]] \in 1..Len(hp)
     /\ LET creator == ClassCreator(hp[sing[d[2]][d[1]]].cls)
        IN /\ d[3] \in 1..Len(paramtypes(creator))
           /\ paramtypes(creator)[d[3]] = target
           /\ paramKey(Inject(creator), d[3], d[2]) = key}

\* C22 as claimed: when D, depending on K in scope S, is cached, then after
\* destroy(K, S) or replaceWith(K, New, S) the cache entry of D is unchanged,
\* inject(D) returns the same D holding the old K instance, and inject(K, S)
\* returns an instance different from the one D holds and, when the
\* container constructed it, constructed after the operation began.
C22_AsClaimed ==
  (last.op \in {"destroy", "replaceWith"} /\ last.status = "ok")
    => \A d \in Dependents(last.preSingletons, heap, last.target, last.key) :
         LET old == heap[last.preSingletons[d[2]][d[1]]].deps[d[3]]
             rD == Apply("inject", d[1], d[2], FactoryOf(0),
                         registrations, singletons, heap)
             rK == Apply("inject", last.target, last.key, FactoryOf(0),
                         registrations, singletons, heap)
         IN /\ CachedIn(singletons, d[1], d[2]) = last.preSingletons[d[2]][d[1]]
            /\ rD.status = "ok"
            /\ rD.val = last.preSingletons[d[2]][d[1]]
            /\ rD.heap[rD.val].deps[d[3]] = old
            /\ rK.status = "ok"
            /\ rK.val # old
            /\ rK.val \notin ReadyMade => rK.val > last.preHeap

\* C22 as amended: destroy and replaceWith do not cascade to dependents: the
\* cache entry of D is unchanged and inject(D) returns the same D holding the
\* old K instance.  inject(K, S) returns what the producer now registered for
\* (K, S) yields: for a constructor an object constructed after the operation
\* began, different from the one D holds; for the factory wrapped around a
\* ready-made instance v that instance v, which is the one D holds when D was
\* built while the same v was registered; and it throws NotFound naming a
\* dependency when the producer now registered has one without registration.
C22_NoCascade ==
  (last.op \in {"destroy", "replaceWith"} /\ last.status = "ok")
    => \A d \in Dependents(last.preSingletons, heap, last.target, last.key) :
         LET old == heap[last.preSingletons[d[2]][d[1]]].deps[d[3]]
             rD == Apply("inject", d[1], d[2], FactoryOf(0),
                         registrations, singletons, heap)
             rK == Apply("inject", last.target, last.key, FactoryOf(0),
                         registrations, singletons, heap)
         IN /\ CachedIn(singletons, d[1], d[2]) = last.preSingletons[d[2]][d[1]]
            /\ rD.status = "ok"
            /\ rD.val = last.preSingletons[d[2]][d[1]]
            /\ rD.built = << >>
            /\ rD.heap[rD.val].deps[d[3]] = old
            /\ IF rK.status # "ok"
               THEN /\ rK.status = "notfound"
                    /\ Len(rK.calls) > 1
                    /\ rK.message # NotFoundMessage(last.target, last.key)
               ELSE IF LastCreator.fn = "class"
               THEN /\ rK.val # old
                    /\ rK.val > last.preHeap
                    /\ rK.heap[rK.val].cls = LastCreator.cls
               ELSE rK.val = LastCreator.val

\* C22 witness: Car was cached holding an Engine object, and Engine of that
\* scope was destroyed or replaced; Car is still cached and still holds the
\* old object, which is no longer the scope's Engine.
C22_Witness ==
  /\ last.op \in {"destroy", "replaceWith"} /\ last.status = "ok"
  /\ last.target = "Engine"
  /\ HasInstance(last.preSingletons, "Car", last.key)
  /\ << "Car", last.key, 1 >> \in
       Dependents(last.preSingletons, heap, last.target, last.key)
  /\ HasInstance(singletons, "Car", last.key)
  /\ heap[singletons[last.key]["Car"]].deps[1] > 0
  /\ heap[singletons[last.key]["Car"]].deps[1]
       = CachedIn(last.preSingletons, "Engine", last.key)
  /\ CachedIn(singletons, "Engine", last.key)
       # heap[singletons[last.key]["Car"]].deps[1]

\* C23: a producer is invoked only for a slot that holds no instance, and at
\* most once per operation: the slots stored by one operation are pairwise
\* different and none held an instance when the operation began (other than
\* the slot replaceWith has evicted), each constructor invocation adds one
\* object, and a slot asked for several times within one inject call (two
\* parameters with the same key and effective scope) is constructed by the
\* first call and handed out, identical, by the others.
C23_ProducerOncePerSlot ==
  /\ \A i \in 1..Len(last.built), j \in 1..Len(last.built) :
       (last.built[i].target = last.built[j].target
        /\ last.built[i].key = last.built[j].key) => i = j
  /\ \A i \in 1..Len(last.built) :
       \/ ~HasInstance(last.preSingletons, last.built[i].target, last.built[i].key)
       \/ /\ last.op = "replaceWith"
          /\ last.built[i].target = last.target /\ last.built[i].key = last.key
  /\ Len(heap) - last.preHeap =
       Cardinality({i \in 1..Len(last.built) : last.built[i].creator.fn = "class"})
  /\ last.status = "ok"
       => \A i \in 1..Len(last.calls), j \in 1..Len(last.calls) :
            (/\ i < j
             /\ last.calls[i].target = last.calls[j].target
             /\ last.calls[i].key = last.calls[j].key)
              => (/\ Cardinality({n \in 1..Len(last.built) :
                                    /\ last.built[n].target = last.calls[i].target
                                    /\ last.built[n].key = last.calls[i].key}) <= 1
                  /\ last.calls[j].parent # "none"
                  /\ \E o \in 1..Len(heap) :
                       /\ heap[o].cls = last.calls[j].parent
                       /\ o > last.preHeap
                       /\ heap[o].deps[last.calls[j].index]
                            = CachedIn(singletons, last.calls[i].target, last.calls[i].key))

\* C23 witness: both parameters of Hybrid were resolved as Engine in one
\* scope within one inject call; Engine was constructed once and Hybrid holds
\* the same object twice.
C23_Witness ==
  /\ last.op = "inject" /\ last.target = "Hybrid" /\ last.status = "ok"
  /\ Len(last.calls) = 3
  /\ last.calls[2].target = last.calls[3].target
  /\ last.calls[2].key = last.calls[3].key
  /\ Len(last.built) = 2
  /\ last.built[1].target = "Engine"
  /\ heap[last.val].deps = << last.built[1].instance, last.built[1].instance >>

\* C24: replaceWith is not atomic on failure.  When the inject it makes throws
\* NotFound for a dependency of the new producer, the registry holds the new
\* producer for (K, S) and (K, S) has no cached instance any more, so
\* inject(K, S) made in the state replaceWith leaves throws the same NotFound
\* instead of returning the old instance.  replaceWith throws only when scope
\* S keeps its bucket after (K, S) was evicted (another key is cached in S);
\* otherwise it makes no inject call and returns normally.
C24_ReplaceNotAtomic ==
  last.op = "replaceWith"
    => (/\ last.status \in {"ok", "notfound"}
        /\ ~BucketSurvives(last.preSingletons, last.target, last.key)
             => (last.status = "ok" /\ last.calls = << >>)
        /\ last.status = "notfound"
             => (/\ BucketSurvives(last.preSingletons, last.target, last.key)
                 /\ Len(last.calls) > 1
                 /\ last.message # NotFoundMessage(last.target, last.key)
                 /\ HasRegistration(registrations, last.target, last.key)
                 /\ LastCreator = replaceCreator(last.arg)
                 /\ ~HasInstance(singletons, last.target, last.key)
                 /\ LET later == Apply("inject", last.target, last.key, FactoryOf(0),
                                       registrations, singletons, heap)
                    IN /\ later.status = "notfound"
                       /\ later.message = last.message
                       /\ later.val = 0))

\* C24 witness: Engine and Car were cached in one scope, and replaceWith of
\* Engine by Turbo, whose Charger has no registration, threw NotFound: the
\* registry holds Turbo and the old Engine object is no longer cached.
C24_Witness ==
  /\ last.op = "replaceWith" /\ last.status = "notfound"
  /\ last.arg = ClassCreator("Turbo")
  /\ HasInstance(last.preSingletons, last.target, last.key)
  /\ HasRegistration(last.preRegistrations, last.target, last.key)
  /\ last.preRegistrations[last.key][last.target].creator # ClassCreator("Turbo")
  /\ LastCreator = ClassCreator("Turbo")
  /\ ~HasInstance(singletons, last.target, last.key)
  /\ last.message = "Dependency not found for type: Charger in key: " \o last.key

\* The scopes whose bucket exists and holds no instance.
EmptyBuckets(sing) == {k \in DOMAIN sing : DOMAIN sing[k] = {}}

\* C25: an inject(K, S) that fails because (K, S) itself has no registration
\* makes no nested call and leaves registry, cache (the set of buckets
\* included: none is created for S) and heap exactly as they were; and a
\* bucket without entries exists after an operation only if it existed before
\* it or the operation is an inject whose nested call threw, the bucket being
\* the one a call still running at that moment had created for its scope.
C25_FailedLookupChangesNothing ==
  /\ (last.op = "inject"
      /\ ~HasRegistration(last.preRegistrations, last.target, last.key))
       => (/\ last.status = "notfound"
           /\ Len(last.calls) = 1
           /\ registrations = last.preRegistrations
           /\ singletons = last.preSingletons
           /\ DOMAIN singletons = DOMAIN last.preSingletons
           /\ Len(heap) = last.preHeap)
  /\ \A k \in EmptyBuckets(singletons) :
       \/ k \in EmptyBuckets(last.preSingletons)
       \/ /\ last.op = "inject"
          /\ last.status # "ok"
          /\ Len(last.calls) > 1
          /\ k \notin DOMAIN last.preSingletons
          /\ \E i \in Chain(last.calls) :
               /\ i < Len(last.calls)
               /\ last.calls[i].key = k

\* C25 witness: a failed inject of a registered class with an unregistered
\* dependency had left an empty bucket, and an inject of an unregistered slot
\* of another scope then threw NotFound, creating no bucket for its scope.
C25_Witness ==
  /\ last.op = "inject" /\ last.status = "notfound"
  /\ ~HasRegistration(registrations, last.target, last.key)
  /\ last.key \notin DOMAIN singletons
  /\ EmptyBuckets(singletons) # {}
  /\ singletons = last.preSingletons

\* C26 as claimed: when inject(K, S) fails on a nested dependency, the
\* NotFound error names the key of the innermost call, the one whose lookup
\* failed, and the scope its declaration gives it: the override of its
\* parameter when one is declared, and otherwise the scope of the call that
\* constructs its parent; it does not name K and S.
C26_AsClaimed ==
  (last.op = "inject" /\ last.status = "notfound" /\ Len(last.calls) > 1)
    => LET c == last.calls[Len(last.calls)]
           overrides == Inject(ClassCreator(c.parent))
           scope == IF c.index \in DOMAIN overrides
                    THEN overrides[c.index]
                    ELSE c.ambient
       IN /\ last.message = NotFoundMessage(c.target, scope)
          /\ last.message # NotFoundMessage(last.target, last.key)

====
